---- MODULE Spec2Model ----
(***************************************************************************)
(* Model of the DART-69 prime scripts:                                     *)
(*   dart69_prime_checker.py            (script "checker")                 *)
(*   Prime Checker 2 DART_69_Optimized.py (script "checker2")              *)
(*   dart69_python_sieve (1).py         (script "sieve")                   *)
(*   Large_Prime_number_Generator.py    (script "generator")               *)
(*   prime_verification_for_Trinity.py  (script "verification")           *)
(*   trinity_grouping_analysis.py       (script "trinity")                 *)
(* Each script is a separate process: Init picks the script that runs and  *)
(* whether the optional gmpy2 library could be imported.  Functions that   *)
(* loop over a range are modelled one iteration per step; the others are   *)
(* operators applied by one action per call.                               *)
(***************************************************************************)
EXTENDS Integers, Sequences, FiniteSets, TLC

VARIABLES
    script,             \* which script is running
    gmpy2,              \* GMPY2_AVAILABLE / HAS_GMPY2 / self.use_gmpy2
    pc,                 \* position inside the running function, "idle" between calls
    op,                 \* the function called last (or running)
    arg,                \* its argument(s)
    ret,                \* its return value ("none" while it runs)
    n,                  \* sieve_dimension: loop variable
    processed,          \* sieve_dimension: processed
    candidates_tested,  \* sieve_dimension / generate_primes_by_formula
    primes,             \* sieve_dimension: primes
    stats,              \* DART69Sieve.stats
    allowed_positions,  \* generate_primes_by_formula: allowed_positions
    pos_i,              \* generate_primes_by_formula: index of pos in allowed_positions
    candidate,          \* generate_primes_by_formula: candidate
    primes_found,       \* generate_primes_by_formula: primes_found
    sieve,              \* _sieve_of_eratosthenes: sieve
    i,                  \* _sieve_of_eratosthenes: outer loop variable
    j,                  \* _sieve_of_eratosthenes: inner loop variable
    suite               \* PrimeVerificationSuite: max_n, primes, prime_set

callVars  == <<pc, op, arg, ret>>
sdVars    == <<n, processed, candidates_tested, primes>>
gfVars    == <<allowed_positions, pos_i, candidate, primes_found>>
seVars    == <<sieve, i, j>>
vars == <<script, gmpy2, pc, op, arg, ret, n, processed, candidates_tested, primes,
          stats, allowed_positions, pos_i, candidate, primes_found, sieve, i, j, suite>>

-----------------------------------------------------------------------------
(* Bounds of the model *)

\* single-number inputs are drawn from -MaxNeg..MaxN
MaxN == 130
MaxNeg == 3
\* dimensions are drawn from 1..MaxDim
MaxDim == 5
\* the sieve of Eratosthenes is built for n in 0..MaxSieveN
MaxSieveN == 24
\* verify_dart69_sieve is given test ranges inside 0..MaxTestRange
MaxTestRange == 40
\* integers too large for the table of floor(pi ** d) are given by their
\* pi-dimension, drawn from MinBigDim..MaxBigDim
MinBigDim == 99
MaxBigDim == 102

(* Program constants *)
Modulus == 69

Numbers    == (0 - MaxNeg)..MaxN
Dimensions == 1..MaxDim

-----------------------------------------------------------------------------
(* Arithmetic helpers *)

\* int(math.sqrt(n)) and int(n**0.5): the floor of the square root (the float
\* computation is exact for the integers of the model)
isqrt(m) == CHOOSE r \in 0..m : r * r <= m /\ (r + 1) * (r + 1) > m

\* math.floor(pi ** d) for d = -1, 0, 1, ...: the value the float computation
\* produces (math.pi and gmpy2.const_pi() agree on these)
PiFloorTable == <<0, 1, 3, 9, 31, 97, 306, 961, 3020, 9488, 29809, 93648>>
PiFloor(d) == PiFloorTable[d + 2]

\* gmpy2.is_prime(n): the library's primality test, exact on the integers of the
\* model; integers below 2 are reported not prime
gmpy2_is_prime(m) == m >= 2 /\ \A k \in 2..isqrt(m) : m % k # 0

-----------------------------------------------------------------------------
(* The single-number primality test: is_prime_fast / _trial_division *)

RECURSIVE TrialLoop(_, _, _)
\* for i in range(3, sqrt_n + 1, 2): if n % i == 0: return False; return True
TrialLoop(m, k, sqrt_n) ==
    IF k > sqrt_n THEN TRUE
    ELSE IF m % k = 0 THEN FALSE
    ELSE TrialLoop(m, k + 2, sqrt_n)

\* _trial_division without the test for even numbers
trial_division_no_even_test(m) ==
    IF m < 2 THEN FALSE
    ELSE IF m = 2 THEN TRUE
    ELSE TrialLoop(m, 3, isqrt(m))

\* PrimeVerificationSuite._trial_division and the else branch of is_prime_fast
_trial_division(m) ==
    IF m < 2 THEN FALSE
    ELSE IF m = 2 THEN TRUE
    ELSE IF m % 2 = 0 THEN FALSE
    ELSE TrialLoop(m, 3, isqrt(m))

\* is_prime_fast(n) of the checkers and of the generator
is_prime_fast(m) ==
    IF gmpy2 THEN gmpy2_is_prime(m)
    ELSE _trial_division(m)

-----------------------------------------------------------------------------
(* pi-dimensions *)

\* get_dimension_range(d) of the checkers and of the generator
get_dimension_range(d) == <<PiFloor(d - 1) + 1, PiFloor(d)>>

RECURSIVE DimensionLoop(_, _)
\* while True: if n <= floor(pi ** d): return d; d += 1; if d > 100: return d
DimensionLoop(m, d) ==
    IF m <= PiFloor(d) THEN d
    ELSE IF d + 1 > 100 THEN d + 1
    ELSE DimensionLoop(m, d + 1)

get_dimension_for_number(m) ==
    IF m <= 1 THEN 0 ELSE DimensionLoop(m, 1)

(* An integer n beyond the table, with floor(pi ** (td - 1)) < n <=
   floor(pi ** td): floor(pi ** d) grows with d, so the loop's test
   n <= floor(pi ** d) is td <= d. *)
RECURSIVE BigDimensionLoop(_, _)
BigDimensionLoop(td, d) ==
    IF td <= d THEN d
    ELSE IF d + 1 > 100 THEN d + 1
    ELSE BigDimensionLoop(td, d + 1)

\* get_dimension_for_number(n) for such an n (n <= 1 is false of it)
big_get_dimension_for_number(td) == BigDimensionLoop(td, 1)

\* the integers at both sides of the boundaries floor(pi ** d)
BoundaryNumbers == {PiFloor(d) + e : d \in 0..(MaxDim - 1), e \in {0, 1}}

BigDimensions == MinBigDim..MaxBigDim

-----------------------------------------------------------------------------
(* dart69_prime_checker.py *)

\* get_dart69_position taking the position relative to the dimension start
position_relative_to_dimension(m) ==
    (m - (PiFloor(get_dimension_for_number(m) - 1) + 1)) % Modulus

\* get_dart69_position(n): int(n) % 69
get_dart69_position(m) == m % Modulus

\* get_dart69_angle(n) in degrees, as the numerator of a fraction over 69
get_dart69_angle(m) == get_dart69_position(m) * 360

\* is_forbidden_position taking position 0 for "no position"
forbidden_position_skips_zero(pos, allow_early_exceptions) ==
    IF pos # 0 /\ pos % 3 = 0
    THEN IF allow_early_exceptions /\ pos \in {3, 23} THEN FALSE ELSE TRUE
    ELSE FALSE

is_forbidden_position(pos, allow_early_exceptions) ==
    IF pos % 3 = 0
    THEN IF allow_early_exceptions /\ pos \in {3, 23} THEN FALSE ELSE TRUE
    ELSE FALSE

Precheck(c, r, p, a) == [could_be_prime |-> c, reason |-> r, position |-> p, angle |-> a]

dart69_precheck(m) ==
    IF m < 2 THEN Precheck(FALSE, "Less than 2", 0, 0)
    ELSE IF m = 2 THEN Precheck(TRUE, "Special case: 2", 2, get_dart69_angle(2))
    ELSE IF m = 3 THEN Precheck(TRUE, "Special case: 3", 3, get_dart69_angle(3))
    ELSE IF m % 2 = 0
         THEN Precheck(FALSE, "Even number", get_dart69_position(m), get_dart69_angle(m))
    ELSE LET position == get_dart69_position(m)
             angle == get_dart69_angle(m)
             dimension == get_dimension_for_number(m)
             allow_exceptions == dimension <= 3
         IN  IF is_forbidden_position(position, allow_exceptions)
             THEN Precheck(FALSE, "Forbidden zone", position, angle)
             ELSE Precheck(TRUE, "Allowed position", position, angle)

\* check_prime_with_dart69(n): (verdict, message)
check_prime_with_dart69(m) ==
    LET pre == dart69_precheck(m)
    IN  IF ~pre.could_be_prime
        THEN [is_prime |-> FALSE, message |-> "Composite - ruled out", precheck |-> pre]
        ELSE IF is_prime_fast(m)
             THEN [is_prime |-> TRUE, message |-> "Prime at position", precheck |-> pre]
             ELSE [is_prime |-> FALSE, message |-> "Composite at position", precheck |-> pre]

\* the regular number check rejecting 0 as well
interactive_checker_rejects_zero(m) ==
    IF m <= 0
    THEN [rejected |-> TRUE, message |-> "Please enter a positive number"]
    ELSE [rejected |-> FALSE, result |-> check_prime_with_dart69(m)]

\* interactive_checker, regular number check: number = int(user_input);
\* a negative number is answered with a message and the loop continues
interactive_checker(m) ==
    IF m < 0
    THEN [rejected |-> TRUE, message |-> "Please enter a positive number"]
    ELSE [rejected |-> FALSE, result |-> check_prime_with_dart69(m)]

\* count=5, the default of find_nearby_primes
NearbyCount == 5

\* gmpy2.next_prime(x): the least prime above x
RECURSIVE FirstPrimeFrom(_)
FirstPrimeFrom(p) == IF gmpy2_is_prime(p) THEN p ELSE FirstPrimeFrom(p + 1)

next_prime(x) == IF x < 2 THEN 2 ELSE FirstPrimeFrom(x + 1)

(* find_nearby_primes, the loop over the previous primes.  The statement
   prev_prime = prev_prime(current - 1) assigns to the name prev_prime, so
   the name is local to the function and its use on the right-hand side of
   the first iteration raises UnboundLocalError; the bare except answers it
   with break. *)
PrevLoop(current) == [primes |-> <<>>, raised |-> {"UnboundLocalError"}]

\* find_nearby_primes, the loop over the next primes: next_prime(current + 1)
\* on the first iteration, next_prime(current) afterwards
RECURSIVE NextLoop(_, _, _)
NextLoop(current, k, acc) ==
    IF k = NearbyCount
    THEN [primes |-> acc, raised |-> {}]
    ELSE LET next_prime_val ==
                 IF k = 0 THEN next_prime(current + 1) ELSE next_prime(current)
         IN  NextLoop(next_prime_val, k + 1, Append(acc, next_prime_val))

(* find_nearby_primes(n): without gmpy2 it returns at once; otherwise it
   prints prev_primes + next_primes sorted and returns None.  raised are the
   exceptions raised inside the two loops, reported those that reach the
   caller (raised again or printed). *)
find_nearby_primes(m) ==
    IF ~gmpy2
    THEN [searched |-> FALSE, all_primes |-> <<>>, raised |-> {}, reported |-> {}]
    ELSE LET prev == PrevLoop(m)
             nxt == NextLoop(m, 0, <<>>)
         IN  [searched |-> TRUE,
              all_primes |-> prev.primes \o nxt.primes,
              raised |-> prev.raised \cup nxt.raised,
              reported |-> {}]

-----------------------------------------------------------------------------
(* Prime Checker 2 DART_69_Optimized.py *)

\* the last-digit table with the even digits only
invalid_last_digits_even == {0, 2, 4, 6, 8}

INVALID_LAST_DIGITS == {0, 2, 4, 5, 6, 8}

\* the forbidden positions with "and" in place of "or"
forbidden_multiples_of_both == {p \in 0..(Modulus - 1) : p % 3 = 0 /\ p % 23 = 0}

\* for i in range(69): if i % 3 == 0 or i % 23 == 0: DART69_FORBIDDEN.add(i)
DART69_FORBIDDEN == {p \in 0..(Modulus - 1) : p % 3 = 0 \/ p % 23 = 0}

DART69_ALLOWED == (0..(Modulus - 1)) \ DART69_FORBIDDEN

\* get_dart69_position(n), dimensional method: (int(n) - start) % 69
get_dart69_position2(m) ==
    LET dimension == get_dimension_for_number(m)
        start == get_dimension_range(dimension)[1]
        relative_position == m - start
    IN  relative_position % Modulus

get_dart69_angle2(m) == get_dart69_position2(m) * 360

last_digit_precheck(m) ==
    LET last_digit == m % 10
    IN  IF m = 2 THEN [ok |-> TRUE, reason |-> "Special case: 2"]
        ELSE IF m = 5 THEN [ok |-> TRUE, reason |-> "Special case: 5"]
        ELSE IF last_digit \in INVALID_LAST_DIGITS
             THEN [ok |-> FALSE, reason |-> "Invalid last digit"]
        ELSE [ok |-> TRUE, reason |-> "Valid last digit"]

dart69_precheck2(m) ==
    LET position == get_dart69_position2(m)
        angle == get_dart69_angle2(m)
    IN  IF position \in DART69_FORBIDDEN
        THEN IF position % 3 = 0 /\ position % 23 = 0
             THEN Precheck(FALSE, "Forbidden zone, multiple of both 3 and 23", position, angle)
             ELSE IF position % 3 = 0
             THEN Precheck(FALSE, "Forbidden zone, multiple of 3", position, angle)
             ELSE Precheck(FALSE, "Forbidden zone, multiple of 23", position, angle)
        ELSE Precheck(TRUE, "Allowed position", position, angle)

\* optimized_prime_check(n): (is_prime, stage_passed, details)
optimized_prime_check(m) ==
    IF m < 2 THEN [is_prime |-> FALSE, stage |-> 1, reason |-> "Less than 2"]
    ELSE IF m \in {2, 3, 5, 7}
         THEN [is_prime |-> TRUE, stage |-> 1, reason |-> "Special prime"]
    ELSE LET last == last_digit_precheck(m)
         IN  IF ~last.ok
             THEN [is_prime |-> FALSE, stage |-> 2, reason |-> last.reason]
             ELSE LET dart == dart69_precheck2(m)
                  IN  IF ~dart.could_be_prime
                      THEN [is_prime |-> FALSE, stage |-> 3, reason |-> dart.reason]
                      ELSE [is_prime |-> is_prime_fast(m), stage |-> 4,
                            reason |-> "At position"]

\* batch_analysis(numbers): the results list and the stage counters
batch_analysis(numbers) ==
    LET checked == [k \in 1..Len(numbers) |-> optimized_prime_check(numbers[k])]
    IN  [results |-> [k \in 1..Len(numbers) |->
                         [n |-> numbers[k],
                          is_prime |-> checked[k].is_prime,
                          stage |-> checked[k].stage]],
         stage_counts |-> [st \in 1..4 |->
                              Cardinality({k \in 1..Len(numbers) : checked[k].stage = st})]]

d6_start == 307

\* demo_efficiency: the test numbers it builds, group by group
test_numbers ==
    <<1234, 5678, 9990, 12345>>
    \o <<d6_start + 0, d6_start + 3, d6_start + 23, d6_start + 46>>
    \o <<101, 113, 127, 139, 149, 151>>
    \o <<1001, 1003, 1007, 1009>>

demo_efficiency == batch_analysis(test_numbers)

-----------------------------------------------------------------------------
(* dart69_python_sieve (1).py: class DART69Sieve *)

\* DART69Sieve.get_dimension_range(dimension)
sieve_get_dimension_range(dimension) ==
    IF dimension = 1 THEN <<2, 3>>
    ELSE <<PiFloor(dimension - 1) + 1, PiFloor(dimension)>>

\* DART69Sieve.dart69_filter(n): angular filter, then digit filter
dart69_filter(m) ==
    LET sector == m % Modulus
    IN  IF (sector % 3 = 0 \/ sector % 23 = 0) /\ m \notin {3, 23}
        THEN FALSE
        ELSE m % 10 \in {1, 3, 7, 9}

is_prime_gmpy2(m) == IF m < 2 THEN FALSE ELSE gmpy2_is_prime(m)

RECURSIVE BasicLoop(_, _, _)
\* for i in range(5, limit, 6): if n % i == 0 or n % (i + 2) == 0: return False
BasicLoop(m, k, limit) ==
    IF k >= limit THEN TRUE
    ELSE IF m % k = 0 \/ m % (k + 2) = 0 THEN FALSE
    ELSE BasicLoop(m, k + 6, limit)

is_prime_basic(m) ==
    IF m < 2 THEN FALSE
    ELSE IF m = 2 THEN TRUE
    ELSE IF m % 2 = 0 THEN FALSE
    ELSE IF m < 9 THEN TRUE
    ELSE IF m % 3 = 0 THEN FALSE
    ELSE BasicLoop(m, 5, isqrt(m) + 1)

\* DART69Sieve.is_prime(n)
sieve_is_prime(m) == IF gmpy2 THEN is_prime_gmpy2(m) ELSE is_prime_basic(m)

-----------------------------------------------------------------------------
(* Large_Prime_number_Generator.py *)

BruteForceLimit == 50000

RangeSeq(a, b) == [k \in 1..(b - a + 1) |-> a + k - 1]

\* generate_allowed_positions(): the positions appended, in order
AllowedPosition(pos) ==
    IF pos % 3 = 0 THEN pos \in {3, 23} ELSE TRUE

generate_allowed_positions == SelectSeq(RangeSeq(0, Modulus - 1), AllowedPosition)

NotException(pos) == pos \notin {3, 23}

\* the dimension adjustment dropping the exceptions one dimension too early
allowed_positions_drop_early(dimension, include_exceptions) ==
    IF ~include_exceptions \/ dimension > 2
    THEN SelectSeq(generate_allowed_positions, NotException)
    ELSE generate_allowed_positions

\* allowed_positions of generate_primes_by_formula after the dimension adjustment
formula_allowed_positions(dimension, include_exceptions) ==
    IF ~include_exceptions \/ dimension > 3
    THEN SelectSeq(generate_allowed_positions, NotException)
    ELSE generate_allowed_positions

\* first_candidate with remainder < pos in place of remainder <= pos
first_candidate_strict(min_n, pos) ==
    LET start_num == min_n
        remainder == start_num % Modulus
    IN  IF remainder < pos
        THEN start_num + (pos - remainder)
        ELSE start_num + (Modulus - remainder + pos)

\* first_candidate: the first number >= min_n with wheel position pos
first_candidate(min_n, pos) ==
    LET start_num == min_n
        remainder == start_num % Modulus
    IN  IF remainder <= pos
        THEN start_num + (pos - remainder)
        ELSE start_num + (Modulus - remainder + pos)

\* the brute force list of compare_methods
brute_force_primes(min_n, max_n) ==
    SelectSeq(RangeSeq(min_n, max_n), is_prime_fast)

\* the return without the sort
primes_unsorted(s) == s

\* primes_found.sort()
sort_primes(s) == SortSeq(s, LAMBDA a, b : a < b)

SeqToSet(s) == {s[k] : k \in 1..Len(s)}

-----------------------------------------------------------------------------
(* prime_verification_for_Trinity.py / trinity_grouping_analysis.py *)

\* sieve = [True] * (n + 1); sieve[0] = sieve[1] = False
initial_sieve(m) == [k \in 0..m |-> k >= 2]

\* the outer range without the + 1
sieve_last_i_short(m) == isqrt(m) - 1

\* the last i of: for i in range(2, int(n**0.5) + 1)
sieve_last_i(m) == isqrt(m)

\* return [i for i in range(2, n + 1) if sieve[i]]
sieve_result(s, m) == SelectSeq(RangeSeq(2, m), LAMBDA k : s[k])

\* is_prime answering from the table alone, without the fallback
suite_is_prime_table_only(m) == m \in suite.prime_set

\* PrimeVerificationSuite.is_prime(n); _trial_division is private to the suite
\* and runs only from here
suite_is_prime(m) ==
    IF m <= suite.max_n THEN m \in suite.prime_set ELSE _trial_division(m)

\* verify_trinity_angular_analysis / verify_universal_density_convergence,
\* one dimension of the loop: the boundaries and the primes of the dimension
primes_in_dim(dim) ==
    IF dim < 1 THEN <<>>
    ELSE LET start == IF dim > 1 THEN PiFloor(dim - 1) + 1 ELSE 1
             end == PiFloor(dim)
         IN  SelectSeq(suite.primes,
                       LAMBDA p : start <= p /\ p <= end /\ p <= suite.max_n)

\* the dart69_filter local to verify_dart69_sieve
verify_dart69_filter(m) ==
    IF m \in {2, 3, 5} THEN TRUE
    ELSE IF m % 2 = 0 \/ m % 3 = 0 \/ m % 5 = 0 THEN FALSE
    ELSE IF m % 23 = 0 THEN FALSE
    ELSE (m % 10) \in {1, 3, 7, 9}

\* verify_dart69_sieve(test_range): the lists it builds from self.is_prime
verify_dart69_sieve(test_range) ==
    LET numbers_tested == RangeSeq(test_range[1], test_range[2])
        dart_candidates == SelectSeq(numbers_tested, verify_dart69_filter)
        actual_primes == SelectSeq(numbers_tested, suite_is_prime)
    IN  [dart_candidates |-> dart_candidates,
         actual_primes |-> actual_primes,
         primes_captured |-> SelectSeq(actual_primes, verify_dart69_filter),
         false_positives |-> SelectSeq(dart_candidates, LAMBDA m : ~suite_is_prime(m))]

\* the test ranges given to verify_dart69_sieve
TestRanges ==
    {<<a, b>> : a \in {0, MaxTestRange \div 2}, b \in {MaxTestRange \div 2, MaxTestRange}}

-----------------------------------------------------------------------------
(* Initial state *)

Scripts == {"checker", "checker2", "sieve", "generator", "verification", "trinity"}
Gmpy2Scripts == {"checker", "checker2", "sieve", "generator"}

NoStats == [k \in {} |-> 0]
NoSuite == [built |-> FALSE, max_n |-> 0, primes |-> <<>>, prime_set |-> {}]

Init ==
    /\ script \in Scripts
    /\ gmpy2 \in (IF script \in Gmpy2Scripts THEN BOOLEAN ELSE {FALSE})
    /\ pc = "idle"
    /\ op = "none"
    /\ arg = 0
    /\ ret = "none"
    /\ n = 0
    /\ processed = 0
    /\ candidates_tested = 0
    /\ primes = <<>>
    /\ stats = NoStats
    /\ allowed_positions = <<>>
    /\ pos_i = 0
    /\ candidate = 0
    /\ primes_found = <<>>
    /\ sieve = <<>>
    /\ i = 0
    /\ j = 0
    /\ suite = NoSuite

\* a call of a function without loop state: the function runs to its return
Call(f, a, r) ==
    /\ pc = "idle"
    /\ pc' = "idle"
    /\ op' = f
    /\ arg' = a
    /\ ret' = r
    /\ UNCHANGED <<script, gmpy2, sdVars, stats, gfVars, seVars, suite>>

-----------------------------------------------------------------------------
(* Actions of dart69_prime_checker.py *)

IsPrimeFast ==
    /\ script \in {"checker", "checker2", "generator"}
    /\ \E m \in Numbers : Call("is_prime_fast", m, is_prime_fast(m))

\* get_dimension_for_number(n), the same function in both checkers
GetDimensionForNumber ==
    /\ script \in {"checker", "checker2"}
    /\ \/ \E m \in BoundaryNumbers :
            Call("get_dimension_for_number", [small |-> TRUE, n |-> m],
                 get_dimension_for_number(m))
       \/ \E td \in BigDimensions :
            Call("get_dimension_for_number", [small |-> FALSE, dimension |-> td],
                 big_get_dimension_for_number(td))

GetDart69Position ==
    /\ script = "checker"
    /\ \E m \in Numbers : Call("get_dart69_position", m, get_dart69_position(m))

Dart69Precheck ==
    /\ script = "checker"
    /\ \E m \in Numbers : Call("dart69_precheck", m, dart69_precheck(m))

\* check_prime_with_dart69(number), called directly or from __main__ with
\* number = int(sys.argv[1])
CheckPrimeWithDart69 ==
    /\ script = "checker"
    /\ \E m \in Numbers : Call("check_prime_with_dart69", m, check_prime_with_dart69(m))

\* one round of the interactive loop with an integer typed in
InteractiveChecker ==
    /\ script = "checker"
    /\ \E m \in Numbers : Call("interactive_checker", m, interactive_checker(m))

\* the "nearby" command of the interactive loop, and the offer after a check
FindNearbyPrimes ==
    /\ script = "checker"
    /\ \E m \in Numbers : Call("find_nearby_primes", m, find_nearby_primes(m))

(* Actions of Prime Checker 2 DART_69_Optimized.py *)

GetDart69Position2 ==
    /\ script = "checker2"
    /\ \E m \in Numbers : Call("get_dart69_position", m, get_dart69_position2(m))

Dart69Precheck2 ==
    /\ script = "checker2"
    /\ \E m \in Numbers : Call("dart69_precheck", m, dart69_precheck2(m))

OptimizedPrimeCheck ==
    /\ script = "checker2"
    /\ \E m \in Numbers : Call("optimized_prime_check", m, optimized_prime_check(m))

\* demo_efficiency(), the "demo" command line
DemoEfficiency ==
    /\ script = "checker2"
    /\ Call("demo_efficiency", test_numbers, demo_efficiency)

-----------------------------------------------------------------------------
(* Actions of dart69_python_sieve (1).py *)

Dart69Filter ==
    /\ script = "sieve"
    /\ \E m \in Numbers : Call("dart69_filter", m, dart69_filter(m))

\* sieve_dimension with the list of primes kept on the instance across calls
SieveDimensionStartKeepsPrimes ==
    /\ script = "sieve"
    /\ pc = "idle"
    /\ \E dimension \in Dimensions :
        /\ op' = "sieve_dimension"
        /\ arg' = dimension
        /\ n' = sieve_get_dimension_range(dimension)[1]
    /\ ret' = "none"
    /\ pc' = "scan"
    /\ processed' = 0
    /\ candidates_tested' = 0
    /\ UNCHANGED <<script, gmpy2, primes, stats, gfVars, seVars, suite>>

\* sieve_dimension(dimension): entry, up to the for loop
SieveDimensionStart ==
    /\ script = "sieve"
    /\ pc = "idle"
    /\ \E dimension \in Dimensions :
        /\ op' = "sieve_dimension"
        /\ arg' = dimension
        /\ n' = sieve_get_dimension_range(dimension)[1]
    /\ ret' = "none"
    /\ pc' = "scan"
    /\ primes' = <<>>
    /\ processed' = 0
    /\ candidates_tested' = 0
    /\ UNCHANGED <<script, gmpy2, stats, gfVars, seVars, suite>>

\* the loop applying the prime test to every number, filtered or not
SieveDimensionStepTestsAll ==
    /\ pc = "scan"
    /\ n <= sieve_get_dimension_range(arg)[2]
    /\ processed' = processed + 1
    /\ candidates_tested' = IF dart69_filter(n) THEN candidates_tested + 1
                            ELSE candidates_tested
    /\ primes' = IF sieve_is_prime(n) THEN Append(primes, n) ELSE primes
    /\ n' = n + 1
    /\ UNCHANGED <<script, gmpy2, callVars, stats, gfVars, seVars, suite>>

\* one iteration of: for n in range(start_num, end_num + 1)
SieveDimensionStep ==
    /\ pc = "scan"
    /\ n <= sieve_get_dimension_range(arg)[2]
    /\ processed' = processed + 1
    /\ IF dart69_filter(n)
       THEN /\ candidates_tested' = candidates_tested + 1
            /\ primes' = IF sieve_is_prime(n) THEN Append(primes, n) ELSE primes
       ELSE UNCHANGED <<candidates_tested, primes>>
    /\ n' = n + 1
    /\ UNCHANGED <<script, gmpy2, callVars, stats, gfVars, seVars, suite>>

\* after the loop: store the statistics and return primes
SieveDimensionReturn ==
    /\ pc = "scan"
    /\ n > sieve_get_dimension_range(arg)[2]
    /\ LET range == sieve_get_dimension_range(arg)
           total_numbers == range[2] - range[1] + 1
       IN  stats' = [dimension |-> arg,
                     range |-> range,
                     total_numbers |-> total_numbers,
                     candidates_tested |-> candidates_tested,
                     primes_found |-> Len(primes)]
    /\ ret' = primes
    /\ pc' = "idle"
    /\ UNCHANGED <<script, gmpy2, op, arg, sdVars, gfVars, seVars, suite>>

-----------------------------------------------------------------------------
(* Actions of Large_Prime_number_Generator.py *)

\* generate_allowed_positions()
GenerateAllowedPositions ==
    /\ script = "generator"
    /\ Call("generate_allowed_positions", 0, generate_allowed_positions)

\* generate_primes_by_formula(dimension, include_exceptions), called directly
\* or by compare_methods(dimension): entry, up to the first candidate
GenerateStart ==
    /\ script = "generator"
    /\ pc = "idle"
    /\ \E dimension \in Dimensions, include_exceptions \in BOOLEAN,
          f \in {"generate_primes_by_formula", "compare_methods"} :
        /\ f = "compare_methods" => include_exceptions
        /\ op' = f
        /\ arg' = [dimension |-> dimension, include_exceptions |-> include_exceptions]
        /\ allowed_positions' = formula_allowed_positions(dimension, include_exceptions)
        /\ candidate' = first_candidate(get_dimension_range(dimension)[1],
                                        allowed_positions'[1])
    /\ pos_i' = 1
    /\ candidates_tested' = 0
    /\ primes_found' = <<>>
    /\ ret' = "none"
    /\ pc' = "generate"
    /\ UNCHANGED <<script, gmpy2, n, processed, primes, stats, seVars, suite>>

\* the while loop counting a candidate only when it is prime
GenerateStepCountsPrimes ==
    /\ pc = "generate"
    /\ pos_i <= Len(allowed_positions)
    /\ candidate <= get_dimension_range(arg.dimension)[2]
    /\ candidates_tested' = IF is_prime_fast(candidate)
                            THEN candidates_tested + 1
                            ELSE candidates_tested
    /\ primes_found' = IF is_prime_fast(candidate)
                       THEN Append(primes_found, candidate)
                       ELSE primes_found
    /\ candidate' = candidate + Modulus
    /\ UNCHANGED <<script, gmpy2, callVars, n, processed, primes, stats,
                   allowed_positions, pos_i, seVars, suite>>

\* one iteration of: while candidate <= max_n
GenerateStep ==
    /\ pc = "generate"
    /\ pos_i <= Len(allowed_positions)
    /\ candidate <= get_dimension_range(arg.dimension)[2]
    /\ candidates_tested' = candidates_tested + 1
    /\ primes_found' = IF is_prime_fast(candidate)
                       THEN Append(primes_found, candidate)
                       ELSE primes_found
    /\ candidate' = candidate + Modulus
    /\ UNCHANGED <<script, gmpy2, callVars, n, processed, primes, stats,
                   allowed_positions, pos_i, seVars, suite>>

\* the while loop ends: next pos of: for pos in allowed_positions
GenerateNextPosition ==
    /\ pc = "generate"
    /\ pos_i <= Len(allowed_positions)
    /\ candidate > get_dimension_range(arg.dimension)[2]
    /\ pos_i' = pos_i + 1
    /\ candidate' = IF pos_i + 1 <= Len(allowed_positions)
                    THEN first_candidate(get_dimension_range(arg.dimension)[1],
                                         allowed_positions[pos_i + 1])
                    ELSE candidate
    /\ UNCHANGED <<script, gmpy2, callVars, n, processed, candidates_tested, primes,
                   stats, allowed_positions, primes_found, seVars, suite>>

\* after the loops: primes_found.sort(), return; compare_methods then runs the
\* brute force scan (small ranges only) and compares the two sets
GenerateReturn ==
    /\ pc = "generate"
    /\ pos_i > Len(allowed_positions)
    /\ primes_found' = sort_primes(primes_found)
    /\ LET range == get_dimension_range(arg.dimension)
           compared == range[2] - range[1] < BruteForceLimit
           brute == IF compared THEN brute_force_primes(range[1], range[2]) ELSE <<>>
       IN  ret' = IF op = "compare_methods"
                  THEN [formula_primes |-> primes_found',
                        compared |-> compared,
                        brute_force_primes |-> brute,
                        identical |-> compared /\ SeqToSet(primes_found') = SeqToSet(brute)]
                  ELSE primes_found'
    /\ pc' = "idle"
    /\ UNCHANGED <<script, gmpy2, op, arg, n, processed, candidates_tested, primes, stats,
                   allowed_positions, pos_i, candidate, seVars, suite>>

-----------------------------------------------------------------------------
(* Actions of prime_verification_for_Trinity.py and trinity_grouping_analysis.py *)

\* _sieve_of_eratosthenes(n) / sieve_of_eratosthenes(n): entry.  The suite
\* calls it once, from __init__(max_n).
SieveStart ==
    /\ script \in {"verification", "trinity"}
    /\ pc = "idle"
    /\ script = "verification" => ~suite.built
    /\ \E m \in 0..MaxSieveN :
        /\ op' = IF script = "verification" THEN "__init__" ELSE "sieve_of_eratosthenes"
        /\ arg' = m
        /\ IF m < 2
           THEN /\ ret' = <<>>
                /\ pc' = "idle"
                /\ suite' = IF script = "verification"
                            THEN [built |-> TRUE, max_n |-> m, primes |-> <<>>,
                                  prime_set |-> {}]
                            ELSE suite
                /\ UNCHANGED seVars
           ELSE /\ ret' = "none"
                /\ pc' = "outer"
                /\ sieve' = initial_sieve(m)
                /\ i' = 2
                /\ j' = 0
                /\ UNCHANGED suite
    /\ UNCHANGED <<script, gmpy2, sdVars, stats, gfVars>>

\* for i in range(2, int(n**0.5) + 1): if sieve[i]: enter the inner loop
SieveOuter ==
    /\ pc = "outer"
    /\ i <= sieve_last_i(arg)
    /\ IF sieve[i]
       THEN /\ j' = i * i
            /\ pc' = "inner"
            /\ UNCHANGED i
       ELSE /\ i' = i + 1
            /\ UNCHANGED <<j, pc>>
    /\ UNCHANGED <<script, gmpy2, op, arg, ret, sdVars, stats, gfVars, sieve, suite>>

\* one iteration of: for j in range(i*i, n + 1, i): sieve[j] = False
SieveInner ==
    /\ pc = "inner"
    /\ IF j <= arg
       THEN /\ sieve' = [sieve EXCEPT ![j] = FALSE]
            /\ j' = j + i
            /\ UNCHANGED <<i, pc>>
       ELSE /\ i' = i + 1
            /\ pc' = "outer"
            /\ UNCHANGED <<sieve, j>>
    /\ UNCHANGED <<script, gmpy2, op, arg, ret, sdVars, stats, gfVars, suite>>

\* the outer loop ends: return the list; __init__ stores primes and prime_set
SieveReturn ==
    /\ pc = "outer"
    /\ i > sieve_last_i(arg)
    /\ ret' = sieve_result(sieve, arg)
    /\ pc' = "idle"
    /\ suite' = IF script = "verification"
                THEN [built |-> TRUE, max_n |-> arg, primes |-> ret',
                      prime_set |-> SeqToSet(ret')]
                ELSE suite
    /\ UNCHANGED <<script, gmpy2, op, arg, sdVars, stats, gfVars, seVars>>

\* is_prime remembering every answer in prime_set
SuiteIsPrimeCaching ==
    /\ script = "verification"
    /\ suite.built
    /\ pc = "idle"
    /\ \E k \in Numbers :
        /\ op' = "is_prime"
        /\ arg' = k
        /\ ret' = suite_is_prime(k)
        /\ suite' = IF ret' THEN [suite EXCEPT !.prime_set = @ \cup {k}] ELSE suite
    /\ UNCHANGED <<script, gmpy2, pc, sdVars, stats, gfVars, seVars>>

SuiteIsPrime ==
    /\ script = "verification"
    /\ suite.built
    /\ \E k \in Numbers : Call("is_prime", k, suite_is_prime(k))

\* verify_trinity_angular_analysis([dim]) on the constructed suite
VerifyTrinityAngularAnalysis ==
    /\ script = "verification"
    /\ suite.built
    /\ \E dim \in Dimensions :
           Call("verify_trinity_angular_analysis", dim, primes_in_dim(dim))

\* verify_dart69_sieve(test_range) on the constructed suite
VerifyDart69Sieve ==
    /\ script = "verification"
    /\ suite.built
    /\ \E test_range \in TestRanges :
           Call("verify_dart69_sieve", test_range, verify_dart69_sieve(test_range))

\* run_all_verifications: the verify_* methods one after the other, their
\* results compiled into all_results; the dimensions and the test range are
\* drawn from the bounded sets
RunAllVerifications ==
    /\ script = "verification"
    /\ suite.built
    /\ \E test_range \in TestRanges :
           Call("run_all_verifications", test_range,
                [trinity_angular_analysis |-> [dim \in Dimensions |-> primes_in_dim(dim)],
                 density_convergence |-> [dim \in Dimensions |-> primes_in_dim(dim)],
                 dart69_sieve |-> verify_dart69_sieve(test_range)])

-----------------------------------------------------------------------------

Next ==
    \/ IsPrimeFast
    \/ GetDimensionForNumber
    \/ GetDart69Position
    \/ Dart69Precheck
    \/ CheckPrimeWithDart69
    \/ InteractiveChecker
    \/ FindNearbyPrimes
    \/ GetDart69Position2
    \/ Dart69Precheck2
    \/ OptimizedPrimeCheck
    \/ DemoEfficiency
    \/ Dart69Filter
    \/ SieveDimensionStart
    \/ SieveDimensionStep
    \/ SieveDimensionReturn
    \/ GenerateAllowedPositions
    \/ GenerateStart
    \/ GenerateStep
    \/ GenerateNextPosition
    \/ GenerateReturn
    \/ SieveStart
    \/ SieveOuter
    \/ SieveInner
    \/ SieveReturn
    \/ SuiteIsPrime
    \/ VerifyTrinityAngularAnalysis
    \/ VerifyDart69Sieve
    \/ RunAllVerifications

Spec == Init /\ [][Next]_vars

-----------------------------------------------------------------------------
(* Properties *)

\* trial division over every possible divisor: what "prime" means in the claims
IsPrime(m) == m > 1 /\ \A k \in 2..(m - 1) : m % k # 0

PrimesIn(a, b) == {x \in a..b : IsPrime(x)}

StrictlyAscending(s) == \A a, b \in 1..Len(s) : a < b => s[a] < s[b]

Returned(f) == op = f /\ pc = "idle"

(* C1: for every n >= 0 the sieve of Eratosthenes returns, in ascending
   order, exactly the integers of [0, n] that trial division classifies as
   prime (n = 0 and n = 1: the empty list, n = 2: [2]), and the suite's
   is_prime(k) agrees with trial division for every k in [0, max_n]. *)
C1_SieveOfEratosthenes ==
    /\ (Returned("sieve_of_eratosthenes") \/ Returned("__init__")) =>
          /\ StrictlyAscending(ret)
          /\ SeqToSet(ret) = PrimesIn(0, arg)
          /\ arg \in {0, 1} => ret = <<>>
          /\ arg = 2 => ret = <<2>>
    /\ (Returned("is_prime") /\ arg \in 0..suite.max_n) => (ret <=> IsPrime(arg))

C1_Witness ==
    /\ Returned("is_prime")
    /\ suite.max_n >= 20
    /\ arg \in 10..suite.max_n
    /\ ret = TRUE

\* what C2 says of a verdict r for the number m
C2_Verdict(m, r) ==
    /\ m = 2 => r
    /\ (m > 2 /\ m % 2 = 0) => ~r
    /\ m < 2 => ~r
    /\ (m >= 3 /\ m % 2 = 1) =>
          /\ r <=> \A k \in 3..isqrt(m) : k % 2 = 1 => m % k # 0
          /\ r <=> IsPrime(m)

(* C2: the single-number primality test (is_prime_fast without gmpy2, and
   _trial_division, which the suite runs for n > max_n) returns true for 2,
   false for even n > 2 and for n < 2, and for odd n >= 3 true exactly when
   no odd i in 3..floor(sqrt(n)) divides n, that is when n is prime. *)
C2_TrialDivision ==
    /\ (Returned("is_prime_fast") /\ ~gmpy2) => C2_Verdict(arg, ret)
    /\ (Returned("is_prime") /\ arg > suite.max_n) => C2_Verdict(arg, ret)

C2_Witness ==
    /\ Returned("is_prime")
    /\ arg > suite.max_n
    /\ arg > 100
    /\ arg % 2 = 1
    /\ ret = FALSE

\* the range scanned by the running or returned scan
ScanRange ==
    IF op = "sieve_dimension" THEN sieve_get_dimension_range(arg)
    ELSE get_dimension_range(arg.dimension)

InRange(x, range) == range[1] <= x /\ x <= range[2]

(* C3: a range scan (sieve_dimension, generate_primes_by_formula) returns a
   strictly ascending sequence, so without duplicates, in which every
   element lies in the scanned range, is prime and passes the residue
   filter that was applied. *)
C3_ScanSound ==
    /\ Returned("sieve_dimension") =>
          /\ StrictlyAscending(ret)
          /\ \A k \in 1..Len(ret) :
                InRange(ret[k], ScanRange) /\ IsPrime(ret[k]) /\ dart69_filter(ret[k])
    /\ (Returned("generate_primes_by_formula") \/ Returned("compare_methods")) =>
          /\ StrictlyAscending(primes_found)
          /\ \A k \in 1..Len(primes_found) :
                /\ InRange(primes_found[k], ScanRange)
                /\ IsPrime(primes_found[k])
                /\ primes_found[k] % Modulus \in SeqToSet(allowed_positions)

C3_Witness ==
    /\ Returned("generate_primes_by_formula")
    /\ arg.dimension >= 5
    /\ Len(primes_found) > 30

(* C4: a range scan has no false negatives relative to its filter: every
   prime of the range that passes the filter (dart69_filter for
   sieve_dimension, n mod 69 in the allowed positions for
   generate_primes_by_formula) is in the returned sequence. *)
C4_ScanComplete ==
    /\ Returned("sieve_dimension") =>
          \A x \in ScanRange[1]..ScanRange[2] :
              (IsPrime(x) /\ dart69_filter(x)) => x \in SeqToSet(ret)
    /\ (Returned("generate_primes_by_formula") \/ Returned("compare_methods")) =>
          \A x \in ScanRange[1]..ScanRange[2] :
              (IsPrime(x) /\ x % Modulus \in SeqToSet(allowed_positions))
                  => x \in SeqToSet(primes_found)

C4_Witness ==
    /\ Returned("generate_primes_by_formula")
    /\ arg.dimension = 1
    /\ ~arg.include_exceptions
    /\ primes_found = <<2>>

(* C5: optimized_prime_check(n) returns is_prime = True exactly when n is
   prime, for every n >= 0: no pre-filter stage rejects a prime. *)
C5_OptimizedCheckExact ==
    (Returned("optimized_prime_check") /\ arg >= 0) => (ret.is_prime <=> IsPrime(arg))

(* C6: sieve_dimension(d) returns the list of all primes of dimension d:
   every prime p with start <= p <= end of get_dimension_range(d). *)
C6_SieveDimensionAllPrimes ==
    Returned("sieve_dimension") =>
        SeqToSet(ret) = PrimesIn(ScanRange[1], ScanRange[2])

(* C7: for every dimension d >= 1, generate_primes_by_formula(d,
   include_exceptions=True) finds the same set of primes as brute force
   over [min_n, max_n], and compare_methods reports identical results. *)
C7_FormulaEqualsBruteForce ==
    /\ (Returned("generate_primes_by_formula") /\ arg.include_exceptions) =>
          SeqToSet(ret) = PrimesIn(ScanRange[1], ScanRange[2])
    /\ Returned("compare_methods") =>
          /\ SeqToSet(ret.formula_primes) = PrimesIn(ScanRange[1], ScanRange[2])
          /\ ret.compared
          /\ ret.identical

C7_Witness ==
    /\ Returned("compare_methods")
    /\ arg.dimension = 3
    /\ ret.identical
    /\ 23 \in SeqToSet(ret.formula_primes)

(* C8: check_prime_with_dart69(n) returns True exactly when n is prime, for
   every n >= 0, and dart69_precheck never rules out a prime. *)
C8_CheckerExact ==
    /\ (Returned("check_prime_with_dart69") /\ arg >= 0) =>
          /\ ret.is_prime <=> IsPrime(arg)
          /\ IsPrime(arg) => ret.precheck.could_be_prime
    /\ (script = "checker" /\ Returned("dart69_precheck") /\ IsPrime(arg)) =>
          ret.could_be_prime

C8_Witness ==
    /\ Returned("check_prime_with_dart69")
    /\ arg > Modulus
    /\ ret.is_prime
    /\ ret.precheck.position > 0

\* the forbidden residues: the multiples of 3, and those with 23 and 46
ForbiddenThirds == {3 * k : k \in 0..22}
ForbiddenThirdsAnd23 == ForbiddenThirds \cup {23, 46}

(* C9 as stated: the classifier excludes n exactly when n mod 69 is in the
   forbidden set and otherwise reports a candidate; 69 is excluded with
   residue 0 and 70 is a candidate. *)
C9_ExcludedIffForbidden ==
    /\ (script = "checker" /\ Returned("dart69_precheck") /\ arg >= 4) =>
          /\ ~ret.could_be_prime <=> (arg % Modulus) \in ForbiddenThirds
          /\ arg = 70 => ret.could_be_prime
    /\ (Returned("dart69_filter") /\ arg >= 4) =>
          /\ ~ret <=> (arg % Modulus) \in ForbiddenThirdsAnd23
          /\ arg = 70 => ret

(* C9 amended: the classifier excludes every n >= 4 whose n mod 69 is in the
   forbidden set (the multiples of 3 for dart69_precheck; the multiples of 3
   or 23 for dart69_filter, n = 23 excepted), and it excludes more than
   those: dart69_precheck every n < 2 and every even n > 2, dart69_filter
   every n whose last digit is not 1, 3, 7 or 9.  Every other n is a
   candidate.  69 is excluded with residue 0, 70 is excluded too, 71 is a
   candidate. *)
C9_ExcludedIffForbiddenOrEvenOrDigit ==
    /\ (script = "checker" /\ Returned("dart69_precheck")) =>
          /\ ~ret.could_be_prime <=>
                \/ arg < 2
                \/ arg > 2 /\ arg % 2 = 0
                \/ arg >= 4 /\ (arg % Modulus) \in ForbiddenThirds
          /\ arg = 69 => ~ret.could_be_prime /\ ret.position = 0
          /\ arg = 70 => ~ret.could_be_prime
          /\ arg = 71 => ret.could_be_prime
    /\ Returned("dart69_filter") =>
          /\ ~ret <=>
                \/ (arg % Modulus) \in ForbiddenThirdsAnd23 /\ arg \notin {3, 23}
                \/ arg % 10 \notin {1, 3, 7, 9}
          /\ arg = 69 => ~ret
          /\ arg = 70 => ~ret
          /\ arg = 71 => ret

C9_Witness ==
    /\ script = "checker"
    /\ Returned("dart69_precheck")
    /\ arg = 69
    /\ ~ret.could_be_prime
    /\ ret.position = 0

(* C10: the wheel position of n is r = n mod 69, a value in 0..68, for every
   integer n (0, 1 and negative n included), in both get_dart69_position
   implementations. *)
C10_PositionIsResidue ==
    Returned("get_dart69_position") =>
        /\ ret \in 0..(Modulus - 1)
        /\ \E q \in (0 - MaxNeg - 1)..MaxN : arg = Modulus * q + ret

(* C11 as stated: a primality query against the built sieve table for an
   index k > max_n or k < 0 fails with OutOfRange instead of returning a
   boolean. *)
C11_OutOfRangeFails ==
    (Returned("is_prime") /\ (arg > suite.max_n \/ arg < 0)) => ret \notin BOOLEAN

(* C11 amended: a primality query for an index k > max_n or k < 0 does not
   fail: for k > max_n is_prime falls back to _trial_division and returns
   whether k is prime, and for k < 0 it returns False. *)
C11_OutOfRangeAnswered ==
    (Returned("is_prime") /\ (arg > suite.max_n \/ arg < 0)) =>
        /\ ret \in BOOLEAN
        /\ ret <=> IsPrime(arg)
        /\ arg < 0 => ret = FALSE

C11_Witness ==
    /\ Returned("is_prime")
    /\ suite.max_n >= 10
    /\ arg > suite.max_n + 50
    /\ ret = TRUE

(* C12 as stated: a negative integer given to a primality check is rejected
   with InvalidInput before any computation on every entry path (the
   interactive loop, the command-line argument, a direct call of the
   primality function); it is never answered with a boolean verdict. *)
C12_NegativeRejectedEverywhere ==
    /\ (Returned("interactive_checker") /\ arg < 0) => ret.rejected
    /\ (Returned("check_prime_with_dart69") /\ arg < 0) => ret.is_prime \notin BOOLEAN
    /\ (script = "checker" /\ Returned("is_prime_fast") /\ arg < 0) => ret \notin BOOLEAN

(* C12 amended: a negative integer is rejected before any computation only
   in the interactive loop, which prints a message and asks again; on the
   command-line argument path and on a direct call it is answered with the
   verdict False: check_prime_with_dart69 reports "Less than 2" and
   is_prime_fast (without gmpy2) returns False.  A non-negative integer is
   never rejected. *)
C12_NegativeRejectedInteractiveOnly ==
    /\ Returned("interactive_checker") =>
          /\ ret.rejected <=> arg < 0
          /\ ret.rejected => DOMAIN ret = {"rejected", "message"}
          /\ ~ret.rejected => (ret.result.is_prime <=> IsPrime(arg))
    /\ (Returned("check_prime_with_dart69") /\ arg < 0) =>
          /\ ret.is_prime = FALSE
          /\ ret.precheck.reason = "Less than 2"
    /\ (script = "checker" /\ Returned("is_prime_fast") /\ ~gmpy2 /\ arg < 0) =>
          ret = FALSE

C12_Witness ==
    /\ Returned("interactive_checker")
    /\ arg < 0
    /\ ret.rejected

\* the positions listed in the module header of Prime Checker 2
HeaderPositions ==
    {0, 3, 6, 9, 12, 15, 18, 21, 23, 24, 27, 30, 33, 36, 39, 42, 45, 46, 48, 51, 54,
     57, 60, 63, 66}

(* C14: every element of the forbidden set is in [0, 69): DART69_FORBIDDEN is
   exactly the 25 positions of the module header (the multiples of 3 in
   0..66 together with 23 and 46), and DART69_FORBIDDEN and DART69_ALLOWED
   are disjoint and together cover exactly 0..68.  dart69_precheck rules
   out exactly the header's positions. *)
C14_ForbiddenSet ==
    script = "checker2" =>
        /\ \A p \in DART69_FORBIDDEN : 0 <= p /\ p < Modulus
        /\ DART69_FORBIDDEN = HeaderPositions
        /\ Cardinality(DART69_FORBIDDEN) = 25
        /\ DART69_FORBIDDEN = {3 * k : k \in 0..22} \cup {23, 46}
        /\ DART69_FORBIDDEN \cap DART69_ALLOWED = {}
        /\ DART69_FORBIDDEN \cup DART69_ALLOWED = 0..(Modulus - 1)
        /\ Returned("dart69_precheck") =>
              /\ ~ret.could_be_prime <=> ret.position \in HeaderPositions
              /\ ret.could_be_prime <=> ret.position \in DART69_ALLOWED

C14_Witness ==
    /\ script = "checker2"
    /\ Returned("dart69_precheck")
    /\ ret.position = 46
    /\ ~ret.could_be_prime

(* C15: no error raised while find_nearby_primes searches for the previous
   and next primes is silently swallowed: every error occurring inside the
   search loops is reported to the immediate caller rather than ending the
   loop quietly with a partial result. *)
C15_NoErrorSwallowed ==
    Returned("find_nearby_primes") => ret.raised \subseteq ret.reported

\* what a fresh DART69Sieve has appended when its scan of dimension d has
\* reached upto: the numbers of start_num..upto-1 passing filter and test
FreshScan(d, upto) ==
    SelectSeq(RangeSeq(sieve_get_dimension_range(d)[1], upto - 1),
              LAMBDA x : dart69_filter(x) /\ sieve_is_prime(x))

(* C16: the scan pipeline is stateless between calls: for any sequence of
   sieve_dimension calls on one DART69Sieve instance, the list returned for
   dimension d is the list a fresh instance returns, whatever stats the
   earlier calls left behind; the same holds of the list at every point of
   the scan. *)
C16_ScanStateless ==
    /\ pc = "scan" => primes = FreshScan(arg, n)
    /\ Returned("sieve_dimension") =>
          /\ ret = FreshScan(arg, sieve_get_dimension_range(arg)[2] + 1)
          /\ stats.dimension = arg
          /\ stats.primes_found = Len(ret)

\* a scan of one dimension at its end, with the stats of another dimension
\* left on the instance by an earlier call
C16_Witness ==
    /\ pc = "scan"
    /\ DOMAIN stats # {}
    /\ n > sieve_get_dimension_range(arg)[2]
    /\ primes # <<>>
    /\ stats.dimension # arg
    /\ stats.primes_found > Len(primes)

(* C17: once PrimeVerificationSuite is constructed, its sieve data is
   read-only: no step of is_prime, verify_* or run_all_verifications changes
   primes, prime_set or max_n. *)
C17_SuiteReadOnly ==
    [][suite.built =>
          /\ suite'.built
          /\ suite'.primes = suite.primes
          /\ suite'.prime_set = suite.prime_set
          /\ suite'.max_n = suite.max_n]_vars

\* run_all_verifications has run on a suite and found primes beyond its table
C17_Witness ==
    /\ suite.built
    /\ Returned("run_all_verifications")
    /\ suite.max_n >= 10
    /\ \E k \in 1..Len(ret.dart69_sieve.actual_primes) :
           ret.dart69_sieve.actual_primes[k] > suite.max_n
    /\ ret.trinity_angular_analysis[2] # <<>>

\* the stage the claim's order assigns to m
FirstApplicableStage(m) ==
    IF m < 2 \/ m \in {2, 3, 5, 7} THEN 1
    ELSE IF (m % 10) \in {0, 2, 4, 5, 6, 8} THEN 2
    ELSE IF get_dart69_position2(m) \in HeaderPositions THEN 3
    ELSE 4

(* C19: optimized_prime_check decides at the first applicable stage in the
   fixed order 1 (n < 2 or n in {2,3,5,7}), 2 (last digit), 3 (forbidden
   wheel position), 4 (full primality test): the returned stage is in
   {1,2,3,4}, a verdict returned at stage 2 or 3 is False, and the full
   primality test runs, and gives the verdict, only when n >= 2, n is not in
   {2,3,5,7}, the last-digit check passed and the position is not
   forbidden. *)
C19_FirstApplicableStage ==
    Returned("optimized_prime_check") =>
        /\ ret.stage \in {1, 2, 3, 4}
        /\ ret.stage = FirstApplicableStage(arg)
        /\ ret.stage \in {2, 3} => ret.is_prime = FALSE
        /\ ret.stage = 1 => (ret.is_prime <=> arg \in {2, 3, 5, 7})
        /\ ret.stage = 4 =>
              /\ arg >= 2
              /\ arg \notin {2, 3, 5, 7}
              /\ (arg % 10) \in {1, 3, 7, 9}
              /\ get_dart69_position2(arg) \notin DART69_FORBIDDEN
              /\ ret.is_prime <=> IsPrime(arg)

\* a composite that passes both pre-filters and is settled by the full test
C19_Witness ==
    /\ Returned("optimized_prime_check")
    /\ ret.stage = 4
    /\ ~ret.is_prime
    /\ arg > 100

(* C20: in demo_efficiency every test number is decided at the stage
   announced for its group: 1234, 5678, 9990 and 12345 are rejected at stage
   2; 307+0, 307+3, 307+23 and 307+46 are rejected at stage 3; the primes
   101, 113, 127, 139, 149, 151 reach stage 4 and are reported prime; and
   1001, 1003, 1007, 1009 pass the pre-filters and reach stage 4. *)
C20_DemoStages ==
    Returned("demo_efficiency") =>
        \A k \in 1..Len(ret.results) :
            LET r == ret.results[k]
            IN  /\ r.n \in {1234, 5678, 9990, 12345} => (r.stage = 2 /\ ~r.is_prime)
                /\ r.n \in {307, 310, 330, 353} => (r.stage = 3 /\ ~r.is_prime)
                /\ r.n \in {101, 113, 127, 139, 149, 151} => (r.stage = 4 /\ r.is_prime)
                /\ r.n \in {1001, 1003, 1007, 1009} => r.stage = 4

(* C21: for every integer n >= 2, get_dimension_for_number(n) returns the
   unique d >= 1 with floor(pi^(d-1)) < n <= floor(pi^d), so that n lies
   inside get_dimension_range(d) = (start, end); this holds for all n,
   including those for which the search loop reaches its d > 100 safety
   check. *)
C21_DimensionContainsNumber ==
    Returned("get_dimension_for_number") =>
        IF arg.small
        THEN arg.n >= 2 =>
                /\ ret >= 1
                /\ PiFloor(ret - 1) < arg.n /\ arg.n <= PiFloor(ret)
                /\ InRange(arg.n, get_dimension_range(ret))
        ELSE ret = arg.dimension

(* C22: generate_allowed_positions returns exactly 46 distinct wheel
   positions in 0..68. *)
C22_FortySixPositions ==
    Returned("generate_allowed_positions") =>
        /\ Len(ret) = 46
        /\ Cardinality(SeqToSet(ret)) = 46
        /\ SeqToSet(ret) \subseteq 0..(Modulus - 1)

\* the integers of [min_n, max_n] the enumeration has visited when it stands
\* at position number k with the next candidate c
VisitedBefore(min_n, max_n, k, c) ==
    {x \in min_n..max_n :
        \/ \E h \in 1..(k - 1) : x % Modulus = allowed_positions[h]
        \/ k <= Len(allowed_positions) /\ x % Modulus = allowed_positions[k] /\ x < c}

(* C23: in generate_primes_by_formula, for every allowed position pos and
   every min_n, first_candidate is the least integer >= min_n congruent to
   pos modulo 69, and the enumeration visits every integer of [min_n, max_n]
   whose residue mod 69 is an allowed position exactly once and no other
   integer, so candidates_tested equals the number of such integers. *)
C23_EnumerationExact ==
    LET generating == pc = "generate"
        returned == Returned("generate_primes_by_formula") \/ Returned("compare_methods")
    IN  (generating \/ returned) =>
        LET min_n == get_dimension_range(arg.dimension)[1]
            max_n == get_dimension_range(arg.dimension)[2]
        IN  /\ \A pos \in SeqToSet(allowed_positions) :
                  LET c == first_candidate(min_n, pos)
                  IN  c >= min_n /\ c % Modulus = pos /\ c - Modulus < min_n
            /\ \A h, k \in 1..Len(allowed_positions) :
                  h # k => allowed_positions[h] # allowed_positions[k]
            /\ (generating /\ pos_i <= Len(allowed_positions)) =>
                  /\ candidate >= min_n
                  /\ candidate % Modulus = allowed_positions[pos_i]
                  /\ candidate - Modulus <= max_n
            /\ generating =>
                  candidates_tested = Cardinality(VisitedBefore(min_n, max_n, pos_i, candidate))
            /\ returned =>
                  candidates_tested =
                      Cardinality({x \in min_n..max_n :
                                      x % Modulus \in SeqToSet(allowed_positions)})

\* a finished enumeration of a dimension wider than two turns of the wheel
C23_Witness ==
    /\ Returned("generate_primes_by_formula")
    /\ arg.dimension = 5
    /\ candidates_tested > 2 * Len(allowed_positions)
    /\ Len(primes_found) < candidates_tested

(* C24: in sieve_dimension the primality test is applied only to numbers
   accepted by dart69_filter, and after every loop iteration len(primes) <=
   candidates_tested <= processed <= total_numbers, with processed =
   total_numbers when the scan completes. *)
C24_ScanCounters ==
    (pc = "scan" \/ Returned("sieve_dimension")) =>
        LET start_num == sieve_get_dimension_range(arg)[1]
            end_num == sieve_get_dimension_range(arg)[2]
            total_numbers == end_num - start_num + 1
        IN  /\ Len(primes) <= candidates_tested
            /\ candidates_tested <= processed
            /\ processed <= total_numbers
            /\ processed = n - start_num
            /\ candidates_tested = Cardinality({x \in start_num..(n - 1) : dart69_filter(x)})
            /\ \A k \in 1..Len(primes) : dart69_filter(primes[k])
            /\ Returned("sieve_dimension") =>
                  /\ processed = total_numbers
                  /\ stats.total_numbers = processed
                  /\ stats.candidates_tested = candidates_tested

\* a completed scan in which the filter and the prime test both rejected numbers
C24_Witness ==
    /\ Returned("sieve_dimension")
    /\ arg = MaxDim
    /\ 0 < Len(ret)
    /\ Len(ret) < stats.candidates_tested
    /\ stats.candidates_tested < processed

====
